---- MODULE Spec2Model ----
(***************************************************************************)
(* A model of super_logger's Logger class (src/loggers/logger.py) and the  *)
(* run-id helpers of src/loggers/utils.py.                                 *)
(*                                                                         *)
(* The state is the class-level registry (_instances, _run_id), the        *)
(* Logger wrapper objects, the handler lists of the underlying             *)
(* logging.getLogger(name) objects, the handler objects, and the part of   *)
(* the filesystem the class touches (directories and log files).           *)
(***************************************************************************)
EXTENDS Integers, Sequences, FiniteSets, TLC

(* ---------------- input domains and bounds ---------------- *)

Names == {"a", "b"}              \* logger names passed to Logger(name)
HNames == {"main", "aux"}        \* handler names
BaseDirs == {"logs", "alt"}      \* log_file_default_dir arguments
\* the directory Logger(n, dir) is called with: the default one when the call
\* creates the Logger, any of them when the name is already registered
DirArgs(registered) == IF registered THEN BaseDirs ELSE {"logs"}
RunNames == {"r"}                \* set_run_name arguments

MaxSteps == 5       \* operations per run of the program

DEBUG == 10
INFO == 20
WARNING == 30
ERROR == 40
CRITICAL == 50
Levels == {DEBUG, INFO, WARNING, ERROR, CRITICAL}
LevelArgs == {DEBUG, ERROR}     \* levels passed to set_handler_level
\* (level, format) arguments passed to add_console_handler / add_file_handler
HandlerArgs == {<<DEBUG, "basic">>, <<ERROR, "named">>}
EmitLevels == {INFO, ERROR}    \* severities of the records callers emit

NoInst == 0         \* "name not in cls._instances"
NoHandler == 0      \* "handler_name not in self.handlers"
NoRunId == <<>>     \* "not hasattr(cls, '_run_id')"
NoPath == <<>>      \* attribute (date_dir, run_dir) not set yet

Threads == {1, 2}   \* the threads of the concurrent scenarios

VARIABLES
    instances,   \* cls._instances: name -> Logger object id (NoInst if absent)
    run_id,      \* cls._run_id (NoRunId while the attribute does not exist)
    objs,        \* the Logger objects allocated so far, by id
    pylog,       \* logging.getLogger(name).handlers, a list of handler ids
    hs,          \* the handler objects constructed so far, by id
    dirs,        \* directories that exist
    files,       \* files that exist: <<path, inode>>
    inodes,      \* contents of the files ever created, by inode
    log,         \* records created by logger.debug/.../critical, in order
    now,         \* the clock read by datetime.now(): <<day, time of day>>
    steps,       \* operations performed so far
    returned,    \* history: instance returned by the last Logger(n) since the last delete of n
    last,        \* the last operation and its outcome
    threads      \* calls in progress on concurrent threads: position and locals

vars == <<instances, run_id, objs, pylog, hs, dirs, files, inodes, log,
          now, steps, returned, last, threads>>

(* ---------------- utils.py ---------------- *)

create_datestamp(t) == t[1]

create_timestamp(t) == t[2]

\* the clock one advance later: the next day, later in the day
Later(t) == <<t[1] + 1, t[2] + 1>>

\* what a datetime.now() that follows a reading t, with no other statement
\* of the program in between, can read: the clock may have advanced
Reads(t) == {t, Later(t)}

\* f'{create_datestamp()}_{create_timestamp()}': the date of one reading of
\* the clock (t1) and the time of day of the next reading (t2)
create_log_datetime_stamp(t1, t2) == <<create_datestamp(t1), create_timestamp(t2)>>

\* faulty variant: the run name is left out of the run id
compose_without_name(t1, t2, run_name) == create_log_datetime_stamp(t1, t2)

compose_global_run_id(t1, t2, run_name) ==
    create_log_datetime_stamp(t1, t2) \o <<run_name>>

(* ---------------- filesystem ---------------- *)

IsPrefix(p, q) == Len(p) <= Len(q) /\ SubSeq(q, 1, Len(p)) = p

PathExists(D, F, p) == p \in D \/ \E f \in F : f[1] = p

Makedirs(D, p) == D \cup {SubSeq(p, 1, k) : k \in 1..Len(p)}

RmtreeDirs(D, p) == {d \in D : ~IsPrefix(p, d)}

RmtreeFiles(F, p) == {f \in F : ~IsPrefix(p, f[1])}

InodeAt(F, p) == (CHOOSE f \in F : f[1] = p)[2]

(* ---------------- the logging library ---------------- *)

Range(s) == {s[k] : k \in DOMAIN s}

\* logging.Logger.addHandler: append unless already in the list
addHandler(lst, h) == IF h \in Range(lst) THEN lst ELSE Append(lst, h)

\* logging.Logger.removeHandler: drop the handler if it is in the list
removeHandler(lst, h) == SelectSeq(lst, LAMBDA x : x # h)

\* the line a handler writes for a record
Line(H, k, rec) == [fmt |-> H[k].fmt, name |-> rec.name, lvl |-> rec.lvl, seq |-> rec.seq]

\* faulty variant: a handler that ignores its level
PassesAlways(H, k, lvl) == TRUE

\* Handler.handle's level filter
Passes(H, k, lvl) == lvl >= H[k].level

\* the handlers of the list that handle a record of level lvl, in list order
Handling(H, lst, lvl) == SelectSeq(lst, LAMBDA k : Passes(H, k, lvl))

LinesOf(H, ks, rec) == [j \in 1..Len(ks) |-> Line(H, ks[j], rec)]

\* the effective level of the underlying logger (logger.py line 65)
LoggerLevel == DEBUG

\* logging.Logger.makeRecord: the next record of logger n, numbered in the
\* order of creation
makeRecord(L, n, lvl) == [name |-> n, lvl |-> lvl, seq |-> Len(L.log) + 1]

\* logging.Logger.callHandlers: every handler of lst that handles the level
\* of rec takes it (Handler.handle) and writes its line
callHandlers(L, lst, rec) ==
    LET ks == Handling(L.hs, lst, rec.lvl)
        into(j) == SelectSeq(ks, LAMBDA k : L.hs[k].kind = "file" /\ L.hs[k].ino = j)
    IN  [hs |-> [k \in DOMAIN L.hs |->
                    IF k \in Range(ks)
                    THEN [L.hs[k] EXCEPT !.out = Append(@, rec)]
                    ELSE L.hs[k]],
         inodes |-> [j \in DOMAIN L.inodes |->
                        L.inodes[j] \o LinesOf(L.hs, into(j), rec)],
         log |-> L.log]

\* logging.Logger.log: create one record and hand it to every handler of lst.
\* L is the logging state [hs, inodes, log]; the result is the new one.
Emit(L, lst, n, lvl) ==
    LET rec == makeRecord(L, n, lvl)
    IN  IF lvl < LoggerLevel THEN L
        ELSE callHandlers([L EXCEPT !.log = Append(@, rec)], lst, rec)

LogState == [hs |-> hs, inodes |-> inodes, log |-> log]

SetLogState(L) ==
    /\ hs' = L.hs
    /\ inodes' = L.inodes
    /\ log' = L.log

(* ---------------- Logger: registry ---------------- *)

\* the object super().__new__ returns: no attribute set yet
NewObj == [name |-> "", initialized |-> FALSE,
           handlers |-> [h \in HNames |-> NoHandler],
           dir |-> NoPath, date_dir |-> NoPath, run_dir |-> NoPath]

\* faulty variant: __new__ without the registry lookup
InRegistryNever(n) == FALSE

\* name in cls._instances
InRegistry(n) == instances[n] # NoInst

\* faulty variant: the run id is regenerated for every new Logger
HasRunIdNever == FALSE

\* hasattr(cls, "_run_id")
HasRunId == run_id # NoRunId

\* faulty variant: __init__ without the re-initialization guard
NeverInitialized(o) == FALSE

\* hasattr(self, "_initialized") and self._initialized
AlreadyInitialized(o) == o.initialized

\* Logger.__init__ on object o
InitObj(o, n, d) ==
    IF AlreadyInitialized(o) THEN o
    ELSE [o EXCEPT !.handlers = [h \in HNames |-> NoHandler],
                   !.name = n,
                   !.dir = <<d>>,
                   !.initialized = TRUE]

\* the directory creation of Logger.__init__
InitDirs(o, d) ==
    IF AlreadyInitialized(o) \/ PathExists(dirs, files, <<d>>) THEN dirs
    ELSE Makedirs(dirs, <<d>>)

\* an operation called to completion from one thread: it counts against the
\* length of the run, and no concurrent call is in progress
Tally ==
    /\ steps < MaxSteps
    /\ steps' = steps + 1
    /\ UNCHANGED threads

\* the record of an operation: the receiver object, the name / handler-name /
\* directory / level arguments (those the operation has), the value returned
\* and the exception raised
Outcome(op, self, n, h, d, lvl, ret, err) ==
    [op |-> op, self |-> self, name |-> n, hname |-> h, dir |-> d, lvl |-> lvl,
     ret |-> ret, err |-> err]

\* Logger(name, log_file_default_dir): __new__ followed by __init__
Logger(n, d) ==
    LET exists == InRegistry(n)
        id == IF exists THEN instances[n] ELSE Len(objs) + 1
        objs1 == IF exists THEN objs ELSE Append(objs, NewObj)
        generates == ~exists /\ ~HasRunId
    IN  /\ Tally
        /\ instances' = IF exists THEN instances ELSE [instances EXCEPT ![n] = id]
        /\ \E t2 \in IF generates THEN Reads(now) ELSE {now} :
              /\ run_id' = IF generates THEN create_log_datetime_stamp(now, t2)
                           ELSE run_id
              /\ now' = t2
        /\ objs' = [objs1 EXCEPT ![id] = InitObj(objs1[id], n, d)]
        /\ dirs' = InitDirs(objs1[id], d)
        /\ returned' = [returned EXCEPT ![n] = id]
        /\ last' = Outcome("Logger", NoInst, n, "", d, 0, id, "")
        /\ UNCHANGED <<pylog, hs, files, inodes, log>>

\* faulty variant: get_logger that never finds the name
RegisteredNever(n) == FALSE

\* "name in cls._instances" of get_logger
Registered(n) == instances[n] # NoInst

\* Logger.get_logger(name)
get_logger(n) ==
    /\ Tally
    /\ last' = IF Registered(n)
               THEN Outcome("get_logger", NoInst, n, "", "", 0, instances[n], "")
               ELSE Outcome("get_logger", NoInst, n, "", "", 0, NoInst, "KeyError")
    /\ UNCHANGED <<instances, run_id, objs, pylog, hs, dirs, files, inodes,
                   log, now, returned>>

\* Logger.set_run_name(run_name)
set_run_name(rn) ==
    /\ Tally
    /\ \E t2 \in Reads(now) :
          /\ run_id' = compose_global_run_id(now, t2, rn)
          /\ now' = t2
    /\ last' = Outcome("set_run_name", NoInst, rn, "", "", 0, NoInst, "")
    /\ UNCHANGED <<instances, objs, pylog, hs, dirs, files, inodes, log, returned>>

\* Logger.keys() / Logger._list_logger_names()
keys == {n \in Names : instances[n] # NoInst}

RECURSIVE RemoveEach(_, _)
\* the loop of _del_logger: removeHandler for every handler of a copy of the list
RemoveEach(lst, todo) ==
    IF todo = <<>> THEN lst
    ELSE RemoveEach(removeHandler(lst, Head(todo)), Tail(todo))

\* logger.logger.handlers.clear()
ClearList(lst) == <<>>

\* faulty variant: _del_logger that leaves the handlers attached
DelHandlersKeep(lst) == lst

\* lines 183-186 of _del_logger: the underlying logger's handler list afterwards
DelHandlers(lst) == ClearList(RemoveEach(lst, lst))

\* del cls._instances[name]
DelEntry(reg, n) == [reg EXCEPT ![n] = NoInst]

\* faulty variant: _del_logger closes every handler it detaches
DelCloseAll(H, lst) ==
    [k \in DOMAIN H |-> IF k \in Range(lst) THEN [H[k] EXCEPT !.closed = TRUE] ELSE H[k]]

\* what _del_logger does to the handler objects of the deleted Logger: nothing
\* (they are detached, never closed)
DelClose(H, lst) == H

\* what _del_logger does to the deleted Logger's own handler mapping: nothing
DelMapping(o) == o

\* Logger._del_logger(name)
_del_logger(n) ==
    /\ Tally
    /\ IF n \in keys
       THEN LET i == instances[n]
                pn == objs[i].name
            IN  /\ pylog' = [pylog EXCEPT ![pn] = DelHandlers(pylog[pn])]
                /\ hs' = DelClose(hs, pylog[pn])
                /\ objs' = [objs EXCEPT ![i] = DelMapping(objs[i])]
                /\ instances' = DelEntry(instances, n)
       ELSE UNCHANGED <<pylog, hs, objs, instances>>
    /\ returned' = [returned EXCEPT ![n] = NoInst]
    /\ last' = Outcome("_del_logger", instances[n], n, "", "", 0, NoInst, "")
    /\ UNCHANGED <<run_id, dirs, files, inodes, log, now>>

(* ---------------- Logger: handlers ---------------- *)

\* Logger._list_handlers(): the keys of self.handlers
_list_handlers(o) == {h \in HNames : o.handlers[h] # NoHandler}

\* faulty variant: the duplicate-name guard never fires
HandlerNeverExists(o, h) == FALSE

\* Logger._handler_exists(handler_name)
_handler_exists(o, h) == h \in _list_handlers(o)

\* a freshly constructed logging.StreamHandler / logging.FileHandler
NewHandler(kind, lvl, fmt, path, ino) ==
    [kind |-> kind, level |-> lvl, fmt |-> fmt, path |-> path, ino |-> ino,
     closed |-> FALSE, out |-> <<>>]

\* the duplicate-name branch of add_console_handler / add_file_handler
WarnDuplicate(L, i) == Emit(L, pylog[objs[i].name], objs[i].name, WARNING)

\* Logger.add_console_handler(name, level, format) on object i
add_console_handler(i, h, lvl, fmt) ==
    LET o == objs[i]
        k == Len(hs) + 1
    IN  /\ Tally
        /\ IF _handler_exists(o, h)
           THEN /\ SetLogState(WarnDuplicate(LogState, i))
                /\ UNCHANGED <<objs, pylog>>
           ELSE /\ hs' = Append(hs, NewHandler("console", lvl, fmt, NoPath, 0))
                /\ objs' = [objs EXCEPT ![i].handlers[h] = k]
                /\ pylog' = [pylog EXCEPT ![o.name] = addHandler(@, k)]
                /\ UNCHANGED <<inodes, log>>
        /\ last' = Outcome("add_console_handler", i, o.name, h, "", lvl, NoInst, "")
        /\ UNCHANGED <<instances, run_id, dirs, files, now, returned>>

\* Logger._create_todays_log_dir(): the value stored in self.date_dir
TodaysLogDir(o) == o.dir \o <<create_datestamp(now)>>

\* Logger._create_run_id_dir(): the value stored in self.run_dir
RunIdDir(o) == TodaysLogDir(o) \o <<run_id>>

\* faulty variant: the directory is never created
EnsureDirSkip(D, p) == D

\* os.makedirs guarded by "if not os.path.exists"
EnsureDir(D, p) == IF PathExists(D, files, p) THEN D ELSE Makedirs(D, p)

\* f"{self.run_id}_{handler_name}.log"
FullFilename(h) == <<run_id, h>>

\* Logger.add_file_handler(handler_name, level, format) on object i
add_file_handler(i, h, lvl, fmt) ==
    LET o == objs[i]
        k == Len(hs) + 1
        file_path == RunIdDir(o) \o <<FullFilename(h)>>
        isNew == ~PathExists(dirs, files, file_path)
        ino == IF isNew THEN Len(inodes) + 1 ELSE InodeAt(files, file_path)
        hs1 == Append(hs, NewHandler("file", lvl, fmt, file_path, ino))
        inodes1 == IF isNew THEN Append(inodes, <<>>) ELSE inodes
        pylog1 == [pylog EXCEPT ![o.name] = addHandler(@, k)]
        L1 == [hs |-> hs1, inodes |-> inodes1, log |-> log]
    IN  /\ Tally
        /\ IF _handler_exists(o, h)
           THEN /\ SetLogState(WarnDuplicate(LogState, i))
                /\ UNCHANGED <<objs, pylog, dirs, files>>
           ELSE /\ dirs' = EnsureDir(EnsureDir(dirs, TodaysLogDir(o)), RunIdDir(o))
                /\ files' = IF isNew THEN files \cup {<<file_path, ino>>} ELSE files
                /\ objs' = [objs EXCEPT ![i].handlers[h] = k,
                                        ![i].date_dir = TodaysLogDir(o),
                                        ![i].run_dir = RunIdDir(o)]
                /\ pylog' = pylog1
                /\ SetLogState(Emit(L1, pylog1[o.name], o.name, DEBUG))
        /\ last' = Outcome("add_file_handler", i, o.name, h, "", lvl, NoInst, "")
        /\ UNCHANGED <<instances, run_id, now, returned>>

\* faulty variant: lookups that return nothing instead of raising
LookupNeverFails(n, h) == FALSE

\* the two dictionary lookups of join_handler: either raises KeyError
LookupFails(n, h) ==
    \/ instances[n] = NoInst
    \/ objs[instances[n]].handlers[h] = NoHandler

\* faulty variant: join_handler that records the handler without attaching it
JoinAttachSkip(lst, k) == lst

\* self.logger.addHandler(handler) of join_handler
JoinAttach(lst, k) == addHandler(lst, k)

\* Logger.join_handler(logger_name, handler_name) on object i
join_handler(i, n, h) ==
    LET o == objs[i]
        found == ~LookupFails(n, h)
        k == IF instances[n] = NoInst THEN NoHandler
             ELSE objs[instances[n]].handlers[h]
    IN  /\ Tally
        /\ IF found
           THEN /\ objs' = [objs EXCEPT ![i].handlers[h] = k]
                /\ pylog' = [pylog EXCEPT ![o.name] = JoinAttach(@, k)]
           ELSE UNCHANGED <<objs, pylog>>
        /\ last' = Outcome("join_handler", i, n, h, "", 0, NoInst,
                           IF found THEN "" ELSE "KeyError")
        /\ UNCHANGED <<instances, run_id, hs, dirs, files, inodes, log,
                       now, returned>>

\* faulty variant: the missing-handler branch stays silent
WarnMissingSilent(L, i) == L

\* the missing-handler branch of remove_handler / set_handler_level:
\* self.logger.warning(...)
WarnMissing(L, i) == Emit(L, pylog[objs[i].name], objs[i].name, WARNING)

\* Logger.remove_handler(handler_name) on object i
remove_handler(i, h) ==
    LET o == objs[i]
    IN  /\ Tally
        /\ IF _handler_exists(o, h)
           THEN /\ pylog' = [pylog EXCEPT ![o.name] = removeHandler(@, o.handlers[h])]
                /\ objs' = [objs EXCEPT ![i].handlers[h] = NoHandler]
                /\ UNCHANGED <<hs, inodes, log>>
           ELSE /\ SetLogState(WarnMissing(LogState, i))
                /\ UNCHANGED <<objs, pylog>>
        /\ last' = Outcome("remove_handler", i, o.name, h, "", 0, NoInst, "")
        /\ UNCHANGED <<instances, run_id, dirs, files, now, returned>>

\* Logger.set_handler_level(handler_name, level) on object i
set_handler_level(i, h, lvl) ==
    LET o == objs[i]
    IN  /\ Tally
        /\ IF _handler_exists(o, h)
           THEN /\ hs' = [hs EXCEPT ![o.handlers[h]].level = lvl]
                /\ UNCHANGED <<inodes, log>>
           ELSE /\ SetLogState(WarnMissing(LogState, i))
        /\ last' = Outcome("set_handler_level", i, o.name, h, "", lvl, NoInst, "")
        /\ UNCHANGED <<instances, run_id, objs, pylog, dirs, files, now, returned>>

\* Logger.clear_todays_logs() on object i; self.date_dir is only set by
\* _create_todays_log_dir, so reading it before that raises AttributeError
clear_todays_logs(i) ==
    LET o == objs[i]
        unset == o.date_dir = NoPath
        hit == ~unset /\ PathExists(dirs, files, o.date_dir)
    IN  /\ Tally
        /\ dirs' = IF hit THEN RmtreeDirs(dirs, o.date_dir) ELSE dirs
        /\ files' = IF hit THEN RmtreeFiles(files, o.date_dir) ELSE files
        /\ last' = Outcome("clear_todays_logs", i, o.name, "", "", 0, NoInst,
                           IF unset THEN "AttributeError" ELSE "")
        /\ UNCHANGED <<instances, run_id, objs, pylog, hs, inodes, log,
                       now, returned>>

\* Logger.clear_all_logs() on object i: every entry directly under the base
\* directory is removed, the base directory itself stays
clear_all_logs(i) ==
    LET o == objs[i]
        under(p) == IsPrefix(o.dir, p) /\ p # o.dir
    IN  /\ Tally
        /\ dirs' = {d \in dirs : ~under(d)}
        /\ files' = {f \in files : ~under(f[1])}
        /\ last' = Outcome("clear_all_logs", i, o.name, "", "", 0, NoInst, "")
        /\ UNCHANGED <<instances, run_id, objs, pylog, hs, inodes, log,
                       now, returned>>

\* Logger.debug / info / warn / warning / error / critical on object i
emit(i, lvl) ==
    LET o == objs[i]
    IN  /\ Tally
        /\ SetLogState(Emit(LogState, pylog[o.name], o.name, lvl))
        /\ last' = Outcome("emit", i, o.name, "", "", lvl, NoInst, "")
        /\ UNCHANGED <<instances, run_id, objs, pylog, dirs, files, now, returned>>

\* datetime.now() advances: the next reading is on the next day, later in the day
Tick ==
    /\ Tally
    /\ now' = Later(now)
    /\ last' = Outcome("Tick", NoInst, "", "", "", 0, NoInst, "")
    /\ UNCHANGED <<instances, run_id, objs, pylog, hs, dirs, files, inodes,
                   log, returned>>

(* ---------------- the specification ---------------- *)

\* no record made yet by the logging call a thread is in
NoRecord == [name |-> "", lvl |-> 0, seq |-> 0]

\* a thread that is not inside a call
NoCall == [pc |-> "idle", self |-> NoInst, name |-> "", hname |-> "", dir |-> "",
           lvl |-> 0, fmt |-> "", ret |-> NoInst, gen |-> FALSE, err |-> "",
           read |-> <<>>, stamp |-> NoRunId, file |-> <<>>,
           handler |-> NoHandler, rec |-> NoRecord]

Init ==
    /\ instances = [n \in Names |-> NoInst]
    /\ run_id = NoRunId
    /\ objs = <<>>
    /\ pylog = [n \in Names |-> <<>>]
    /\ hs = <<>>
    /\ dirs = {}
    /\ files = {}
    /\ inodes = <<>>
    /\ log = <<>>
    /\ now = <<0, 0>>
    /\ steps = 0
    /\ returned = [n \in Names |-> NoInst]
    /\ last = Outcome("init", NoInst, "", "", "", 0, NoInst, "")
    /\ threads = [t \in Threads |-> NoCall]

\* the Logger objects a caller obtains from the registry
Live == {instances[n] : n \in Names} \ {NoInst}

\* Logger names are keys of a dictionary and nothing else, so two names that
\* occur nowhere in the state are interchangeable: a call is given every
\* registered name and the first name that is not registered
FirstFree == IF instances["a"] = NoInst THEN {"a"}
             ELSE IF instances["b"] = NoInst THEN {"b"} ELSE {}

NameArgs == {n \in Names : instances[n] # NoInst} \cup FirstFree

\* the handler names that occur in the state: in a mapping of a Logger
\* object or in the file name of a file handler
UsedH ==
    {h \in HNames : \E i \in DOMAIN objs : objs[i].handlers[h] # NoHandler}
    \cup {hs[k].path[Len(hs[k].path)][2] :
             k \in {j \in DOMAIN hs : hs[j].kind = "file"}}

\* handler names are interchangeable in the same way: a call is given every
\* handler name in use and the first one that is not
HNameArgs == IF "main" \in UsedH THEN HNames ELSE UsedH \cup {"main"}

\* a run of the program: at most MaxSteps operations, in any order (no
\* operation is tried once the run is complete)
Next ==
    \/ steps < MaxSteps /\ \E n \in NameArgs :
          \E d \in DirArgs(instances[n] # NoInst) : Logger(n, d)
    \/ steps < MaxSteps /\ \E n \in NameArgs : get_logger(n)
    \/ steps < MaxSteps /\ \E rn \in RunNames : set_run_name(rn)
    \/ steps < MaxSteps /\ \E n \in NameArgs : _del_logger(n)
    \/ steps < MaxSteps /\ \E i \in Live, h \in HNameArgs, a \in HandlerArgs :
          add_console_handler(i, h, a[1], a[2])
    \/ steps < MaxSteps /\ \E i \in Live, h \in HNameArgs, a \in HandlerArgs :
          add_file_handler(i, h, a[1], a[2])
    \/ steps < MaxSteps /\ \E i \in Live, n \in NameArgs, h \in HNameArgs : join_handler(i, n, h)
    \/ steps < MaxSteps /\ \E i \in Live, h \in HNameArgs : remove_handler(i, h)
    \/ steps < MaxSteps /\ \E i \in Live, h \in HNameArgs, lvl \in LevelArgs :
          set_handler_level(i, h, lvl)
    \/ steps < MaxSteps /\ \E i \in Live : clear_todays_logs(i)
    \/ steps < MaxSteps /\ \E i \in Live : clear_all_logs(i)
    \/ steps < MaxSteps /\ \E i \in Live, lvl \in EmitLevels : emit(i, lvl)
    \/ steps < MaxSteps /\ Tick

Spec == Init /\ [][Next]_vars

(* ---------------- properties ---------------- *)

\* this step is the operation named op
Did(op) == steps' = steps + 1 /\ last'.op = op

EmptyMapping == [h \in HNames |-> NoHandler]

\* the handler list of the underlying logger that object i emits through
PathOf(i) == pylog[objs[i].name]

\* C1: Logger(n) called again with no _del_logger(n) since the previous
\* Logger(n) returns the instance the previous call returned, whatever
\* operations ran in between.
C1_SameInstance ==
    [][\A n \in Names :
          (Did("Logger") /\ last'.name = n /\ returned[n] # NoInst)
              => last'.ret = returned[n]]_vars

\* a second Logger(n) returned object 1 after another Logger was created and a
\* handler was added to object 1 in between
C1_Witness ==
    /\ last.op = "Logger"
    /\ last.ret = 1
    /\ Len(objs) = 2
    /\ objs[1].handlers # EmptyMapping

\* C2: Logger(n, d) for a name that is registered and initialized leaves the
\* object's handler mapping, base directory, date and run directories, the
\* handlers on its emission path and the directories on disk as they were,
\* also when d differs from the directory the object was created with.
C2_ReinitKeepsState ==
    [][\A n \in Names :
          (Did("Logger") /\ last'.name = n /\ instances[n] # NoInst)
              => /\ instances'[n] = instances[n]
                 /\ objs'[instances[n]] = objs[instances[n]]
                 /\ pylog'[n] = pylog[n]
                 /\ dirs' = dirs
                 /\ files' = files]_vars

\* Logger(n, d) was re-invoked with another base directory on an object that
\* holds a file handler and has its date and run directories set
C2_Witness ==
    /\ last.op = "Logger"
    /\ last.ret # NoInst
    /\ <<last.dir>> # objs[last.ret].dir
    /\ objs[last.ret].handlers # EmptyMapping
    /\ objs[last.ret].date_dir # NoPath
    /\ objs[last.ret].run_dir # NoPath
    /\ PathOf(last.ret) # <<>>

\* C3: once the run id exists, a step changes it only if the step is
\* set_run_name.
C3_RunIdStable ==
    [][(run_id # NoRunId /\ ~Did("set_run_name")) => run_id' = run_id]_vars

\* a Logger was created when no Logger was registered any more and the clock
\* had moved on, and the run id is still the one generated at the start
C3_Witness ==
    /\ last.op = "Logger"
    /\ last.ret = 2
    /\ Live = {2}
    /\ now # <<0, 0>>
    /\ run_id = <<0, 0>>

\* C4: _del_logger(n) of a registered Logger removes n from the registered
\* names and leaves none of that Logger's handlers on the emission path of n;
\* a Logger(n) that creates the Logger returns one with an empty mapping.
C4_DeleteThenFresh ==
    [][\A n \in Names :
          /\ (Did("_del_logger") /\ last'.name = n /\ instances[n] # NoInst)
                => /\ n \notin keys'
                   /\ \A h \in HNames :
                         objs[instances[n]].handlers[h] \notin Range(pylog'[n])
          /\ (Did("Logger") /\ last'.name = n /\ instances[n] = NoInst)
                => /\ instances'[n] = last'.ret
                   /\ objs'[last'.ret].handlers = EmptyMapping
                   /\ pylog'[n] = pylog[n]]_vars

\* object 2 was created under the name of the deleted object 1, which had a
\* handler; the new object has none, in its mapping or on its emission path
C4_Witness ==
    /\ last.op = "Logger"
    /\ last.ret = 2
    /\ objs[1].name = last.name
    /\ objs[1].handlers # EmptyMapping
    /\ 1 \notin Live
    /\ objs[2].handlers = EmptyMapping
    /\ pylog[last.name] = <<>>

\* C5: _del_logger(n) of a registered Logger closes every handler of that
\* Logger and leaves the Logger's own handler mapping empty; _del_logger(n) of
\* an unregistered name changes nothing.
C5_DeleteClosesHandlers ==
    [][\A n \in Names :
          (Did("_del_logger") /\ last'.name = n)
              => IF instances[n] # NoInst
                 THEN /\ \A h \in HNames :
                            objs[instances[n]].handlers[h] # NoHandler
                                => hs'[objs[instances[n]].handlers[h]].closed
                      /\ objs'[instances[n]].handlers = EmptyMapping
                 ELSE UNCHANGED <<instances, run_id, objs, pylog, hs, dirs,
                                  files, inodes, log, now>>]_vars

\* the fields of a handler that configure it (everything but what it has written)
Config(hd) == [kind |-> hd.kind, level |-> hd.level, fmt |-> hd.fmt,
               path |-> hd.path, ino |-> hd.ino, closed |-> hd.closed]

\* C6: add_console_handler / add_file_handler with a handler name that is
\* already in the mapping changes nothing except that exactly one WARNING
\* record is emitted through that Logger: mappings, attached handlers, every
\* handler's identity, level, format and target, the directories and the
\* files stay as they were.
C6_DuplicateAddIsNoOp ==
    [][(Did("add_console_handler") \/ Did("add_file_handler")) =>
       \A i \in DOMAIN objs, h \in HNames :
          ( /\ last'.self = i
            /\ last'.hname = h
            /\ objs[i].handlers[h] # NoHandler )
              => /\ objs' = objs
                 /\ pylog' = pylog
                 /\ instances' = instances
                 /\ run_id' = run_id
                 /\ dirs' = dirs
                 /\ files' = files
                 /\ Len(inodes') = Len(inodes)
                 /\ Len(hs') = Len(hs)
                 /\ \A k \in DOMAIN hs : Config(hs'[k]) = Config(hs[k])
                 /\ Len(log') = Len(log) + 1
                 /\ log'[Len(log')].lvl = WARNING
                 /\ log'[Len(log')].name = objs[i].name]_vars

\* add_file_handler was called, with another level, for a name that holds the
\* only handler, a console handler: one warning, no file, the level kept
C6_Witness ==
    /\ last.op = "add_file_handler"
    /\ Len(hs) = 1
    /\ hs[1].kind = "console"
    /\ objs[last.self].handlers[last.hname] = 1
    /\ hs[1].level # last.lvl
    /\ Len(log) = 1
    /\ log[1].lvl = WARNING
    /\ files = {}

\* the handler-name slot h of the Logger registered as n
Slot(n, h) == IF instances[n] = NoInst THEN NoHandler
              ELSE objs[instances[n]].handlers[h]

\* this step is operation op on slot h of the Logger registered as n
DidOn(op, n, h) == Did(op) /\ last'.self = instances[n] /\ last'.hname = h

\* C7 as stated: a slot goes from absent to attached only through
\* add_console_handler / add_file_handler, from attached to absent only
\* through remove_handler / _del_logger, and nothing else changes the slot.
C7_OnlyAddAttaches ==
    [][\A n \in Names, h \in HNames :
          /\ (Slot(n, h) = NoHandler /\ Slot(n, h)' # NoHandler)
                => DidOn("add_console_handler", n, h) \/ DidOn("add_file_handler", n, h)
          /\ (Slot(n, h) # NoHandler /\ Slot(n, h)' = NoHandler)
                => DidOn("remove_handler", n, h)
                   \/ (Did("_del_logger") /\ last'.name = n)
          /\ (Slot(n, h) # NoHandler /\ Slot(n, h)' # NoHandler)
                => Slot(n, h)' = Slot(n, h)]_vars

\* C7 amended: join_handler also attaches an absent slot, and is the one
\* operation that replaces the handler object of an attached slot.
C7_SlotTransitions ==
    [][\A n \in Names, h \in HNames :
          LET before == Slot(n, h)
              after == Slot(n, h)'
          IN  after # before =>
                /\ (before = NoHandler)
                      => \/ DidOn("add_console_handler", n, h)
                         \/ DidOn("add_file_handler", n, h)
                         \/ DidOn("join_handler", n, h)
                /\ (after = NoHandler)
                      => DidOn("remove_handler", n, h)
                         \/ (Did("_del_logger") /\ last'.name = n)
                /\ (before # NoHandler /\ after # NoHandler)
                      => DidOn("join_handler", n, h)]_vars

\* join_handler replaced the handler of an attached slot: the Logger's mapping
\* holds one handler, its emission path two
C7_Witness ==
    /\ last.op = "join_handler"
    /\ last.err = ""
    /\ last.self \in Live
    /\ Cardinality(_list_handlers(objs[last.self])) = 1
    /\ Len(PathOf(last.self)) = 2

\* the records a handler has written are in emission order
InOrder(out) == \A p, q \in DOMAIN out : p < q => out[p].seq < out[q].seq

\* C8: a successful join_handler(A, h) on B leaves B's slot h holding the
\* handler object of A's slot h (no new handler object is made) and attaches
\* it to B's emission path; every record a registered Logger emits that
\* passes the level of a handler in its mapping is appended to what that
\* handler has written (and, for a file handler, to its file), so the sink
\* holds the records of A and of B in emission order.
C8_JoinSharesSink ==
    /\ [](\A k \in DOMAIN hs : InOrder(hs[k].out))
    /\ [][(Did("join_handler") \/ Did("emit")) =>
          \A i \in DOMAIN objs, h \in HNames :
            /\ (Did("join_handler") /\ last'.self = i /\ last'.hname = h
                    /\ last'.err = "")
                  => /\ Slot(last'.name, h) # NoHandler
                     /\ objs'[i].handlers[h] = Slot(last'.name, h)
                     /\ objs'[instances[last'.name]].handlers[h] = Slot(last'.name, h)
                     /\ Slot(last'.name, h) \in Range(pylog'[objs[i].name])
                     /\ hs' = hs
            /\ (Did("emit") /\ last'.self = i /\ i \in Live
                    /\ objs[i].handlers[h] # NoHandler
                    /\ last'.lvl >= hs[objs[i].handlers[h]].level)
                  => LET k == objs[i].handlers[h]
                         rec == [name |-> objs[i].name, lvl |-> last'.lvl,
                                 seq |-> Len(log) + 1]
                         old == inodes[hs[k].ino]
                         new == inodes'[hs[k].ino]
                     IN  /\ hs'[k].out = Append(hs[k].out, rec)
                         /\ hs[k].kind = "file"
                               => /\ Len(new) > Len(old)
                                  /\ SubSeq(new, 1, Len(old)) = old
                                  /\ new[Len(new)] = Line(hs, k, rec)]_vars

\* B emitted through a file handler it joined from A: the handler has written
\* A's record and then B's, and both are in the one file
C8_Witness ==
    /\ last.op = "emit"
    /\ \E n \in Names, h \in HNames :
          /\ instances[n] \notin {NoInst, last.self}
          /\ Slot(n, h) # NoHandler
          /\ Slot(n, h) = objs[last.self].handlers[h]
          /\ hs[Slot(n, h)].kind = "file"
          /\ Len(hs[Slot(n, h)].out) = 2
          /\ hs[Slot(n, h)].out[1].name = n
          /\ hs[Slot(n, h)].out[2].name = last.name
          /\ Len(inodes[hs[Slot(n, h)].ino]) = 2

\* C9: join_handler(other, h) raises KeyError when other is not registered or
\* has no handler named h, and then changes no mapping, no emission path, no
\* handler and not the registry.
C9_JoinLookupFails ==
    [][Did("join_handler") =>
       \A i \in DOMAIN objs :
          ( /\ last'.self = i
            /\ Slot(last'.name, last'.hname) = NoHandler )
              => /\ last'.err = "KeyError"
                 /\ objs' = objs
                 /\ pylog' = pylog
                 /\ hs' = hs
                 /\ instances' = instances]_vars

\* join_handler failed on a registered other Logger that has a handler, but
\* not one of the requested name
C9_Witness ==
    /\ last.op = "join_handler"
    /\ last.err = "KeyError"
    /\ instances[last.name] \notin {NoInst, last.self}
    /\ objs[instances[last.name]].handlers # EmptyMapping
    /\ objs[last.self].handlers = EmptyMapping
    /\ PathOf(last.self) = <<>>

\* C10: get_logger(n) returns the registered instance when n is registered;
\* otherwise it raises KeyError, and it never creates a Logger or changes the
\* registry or the run id.
C10_GetLogger ==
    [][\A n \in Names :
          (Did("get_logger") /\ last'.name = n)
              => /\ IF instances[n] # NoInst
                    THEN last'.ret = instances[n] /\ last'.err = ""
                    ELSE last'.ret = NoInst /\ last'.err = "KeyError"
                 /\ UNCHANGED <<instances, run_id, objs, pylog, hs, dirs, files>>]_vars

\* get_logger failed for an unregistered name while another Logger exists:
\* no object was created for it
C10_Witness ==
    /\ last.op = "get_logger"
    /\ last.err = "KeyError"
    /\ instances[last.name] = NoInst
    /\ Live # {}
    /\ Len(objs) = Cardinality(Live)
    /\ run_id # NoRunId

\* C11: remove_handler(h) and set_handler_level(h, level) on a Logger whose
\* mapping has no handler named h raise nothing, leave every mapping, every
\* emission path and every handler's level and configuration as they were,
\* and emit exactly one WARNING record through that Logger.
C11_MissingHandlerWarns ==
    [][(Did("remove_handler") \/ Did("set_handler_level")) =>
       \A i \in DOMAIN objs, h \in HNames :
          ( /\ last'.self = i
            /\ last'.hname = h
            /\ objs[i].handlers[h] = NoHandler )
              => /\ last'.err = ""
                 /\ objs' = objs
                 /\ pylog' = pylog
                 /\ instances' = instances
                 /\ Len(hs') = Len(hs)
                 /\ \A k \in DOMAIN hs : Config(hs'[k]) = Config(hs[k])
                 /\ Len(log') = Len(log) + 1
                 /\ log'[Len(log')].lvl = WARNING
                 /\ log'[Len(log')].name = objs[i].name]_vars

\* set_handler_level named a handler the Logger does not have while it has
\* another one, at another level: one warning, which that handler has written
C11_Witness ==
    /\ last.op = "set_handler_level"
    /\ objs[last.self].handlers[last.hname] = NoHandler
    /\ \E h \in HNames :
          /\ objs[last.self].handlers[h] # NoHandler
          /\ hs[objs[last.self].handlers[h]].level # last.lvl
          /\ hs[objs[last.self].handlers[h]].out # <<>>
    /\ Len(log) = 1
    /\ log[1].lvl = WARNING
    /\ log[1].name = last.name

\* C12: a record of severity s emitted through a Logger is appended to what a
\* handler on that Logger's emission path has written exactly when s is at
\* least that handler's current level, whatever the levels of the other
\* handlers; handlers not on the path get nothing. set_handler_level(h, l) on
\* an attached slot makes l the current level of that handler and of no other.
C12_HandlerLevelFilter ==
    [][(Did("emit") \/ Did("set_handler_level")) =>
       \A i \in DOMAIN objs :
          /\ (Did("emit") /\ last'.self = i)
                => LET rec == [name |-> objs[i].name, lvl |-> last'.lvl,
                               seq |-> Len(log) + 1]
                   IN  /\ log' = Append(log, rec)
                       /\ DOMAIN hs' = DOMAIN hs
                       /\ \A k \in DOMAIN hs :
                             /\ hs'[k].level = hs[k].level
                             /\ hs'[k].out =
                                   IF k \in Range(PathOf(i)) /\ last'.lvl >= hs[k].level
                                   THEN Append(hs[k].out, rec)
                                   ELSE hs[k].out
          /\ \A h \in HNames :
                (Did("set_handler_level") /\ last'.self = i /\ last'.hname = h
                    /\ objs[i].handlers[h] # NoHandler)
                  => /\ DOMAIN hs' = DOMAIN hs
                     /\ \A k \in DOMAIN hs :
                           hs'[k].level = IF k = objs[i].handlers[h]
                                          THEN last'.lvl ELSE hs[k].level]_vars

\* an INFO record was emitted through a Logger with two handlers created at
\* DEBUG level, one of them raised to ERROR by set_handler_level: the raised
\* one has written nothing, the other has written the record
C12_Witness ==
    /\ last.op = "emit"
    /\ last.lvl = INFO
    /\ Len(log) = 1
    /\ \E h, g \in HNames :
          LET o == objs[last.self]
          IN  /\ o.handlers[h] # NoHandler
              /\ o.handlers[g] # NoHandler
              /\ hs[o.handlers[h]].level = ERROR
              /\ hs[o.handlers[h]].fmt = "basic"
              /\ hs[o.handlers[h]].out = <<>>
              /\ hs[o.handlers[g]].level = DEBUG
              /\ hs[o.handlers[g]].out = log

\* the file handlers constructed so far
FileHandlers == {k \in DOMAIN hs : hs[k].kind = "file"}

\* C13: set_run_name(r) makes the global run id <date>_<time>_r, the date as
\* the call reads the clock first and the time of day as it reads the clock
\* next, and touches no handler, file or directory, so an open file
\* handler keeps the path it was opened with; no later step changes the path
\* or the file of a handler either. A file handler added afterwards, on a
\* Logger created before or after the call, is opened at a path whose run-id
\* directory and file name are composed from the run id current at that add.
C13_SetRunName ==
    [][/\ Did("set_run_name")
            => /\ run_id' = <<create_datestamp(now), create_timestamp(now'), last'.name>>
               /\ now' \in Reads(now)
               /\ hs' = hs
               /\ files' = files
               /\ dirs' = dirs
               /\ objs' = objs
       /\ \A k \in DOMAIN hs :
             /\ k \in DOMAIN hs'
             /\ hs'[k].path = hs[k].path
             /\ hs'[k].ino = hs[k].ino
       /\ Did("add_file_handler") =>
           \A i \in DOMAIN objs, h \in HNames :
             (last'.self = i /\ last'.hname = h /\ objs[i].handlers[h] = NoHandler)
               => LET p == hs'[objs'[i].handlers[h]].path
                  IN  /\ Len(p) = Len(objs[i].dir) + 3
                      /\ p[Len(p) - 1] = run_id
                      /\ p[Len(p)] = <<run_id, h>>]_vars

\* after a file handler was opened under the first run id, set_run_name ran,
\* a second Logger was created and added a file handler: the first handler
\* still has its path with the old run id, the second one's has the new one
C13_Witness ==
    /\ last.op = "add_file_handler"
    /\ last.self = 2
    /\ FileHandlers = {1, 2}
    /\ objs[1].handlers[last.hname] = 1
    /\ objs[2].handlers[last.hname] = 2
    /\ run_id = <<0, 0, "r">>
    /\ hs[1].path = <<"logs", 0, <<0, 0>>, <<<<0, 0>>, last.hname>>>>
    /\ hs[2].path = <<"logs", 0, run_id, <<run_id, last.hname>>>>

\* C14: add_file_handler(h) on a Logger whose slot h is absent constructs a
\* new file handler on <base directory>/<date stamp>/<run id>/<run id>_<h>.log,
\* with the date and the global run id of the call; the file exists
\* afterwards, a file that was already there is kept with what it held
\* (append mode), and the date directory and the run-id directory exist
\* afterwards whether or not they existed before.
C14_FileHandlerPath ==
    [][Did("add_file_handler") =>
       \A i \in DOMAIN objs, h \in HNames :
          (last'.self = i /\ last'.hname = h /\ objs[i].handlers[h] = NoHandler)
            => LET date_dir == objs[i].dir \o <<create_datestamp(now)>>
                   run_dir == date_dir \o <<run_id>>
                   p == run_dir \o <<<<run_id, h>>>>
                   k == objs'[i].handlers[h]
               IN  /\ k \in DOMAIN hs' \ DOMAIN hs
                   /\ hs'[k].kind = "file"
                   /\ hs'[k].path = p
                   /\ ~hs'[k].closed
                   /\ <<p, hs'[k].ino>> \in files'
                   /\ \A f \in files :
                         f[1] = p => /\ f \in files'
                                     /\ hs'[k].ino = f[2]
                                     /\ Len(inodes'[f[2]]) >= Len(inodes[f[2]])
                                     /\ SubSeq(inodes'[f[2]], 1, Len(inodes[f[2]]))
                                           = inodes[f[2]]
                   /\ date_dir \in dirs'
                   /\ run_dir \in dirs'
                   /\ objs[i].dir \in dirs']_vars

\* a file handler was added again under a name removed before: the second
\* handler object is open on the file of the first, in directories that
\* existed already, and the file holds the lines of both
C14_Witness ==
    /\ last.op = "add_file_handler"
    /\ FileHandlers = {1, 2}
    /\ objs[last.self].handlers[last.hname] = 2
    /\ hs[1].path = hs[2].path
    /\ hs[1].ino = hs[2].ino
    /\ Len(inodes[hs[2].ino]) = 2
    /\ Len(hs[1].out) = 1
    /\ Len(hs[2].out) = 1

\* this step is add_file_handler(h) on object i, whose slot h is absent, right
\* after a clear_todays_logs() on i that completed, and no file exists at the
\* path of the handler's log file
AddAfterClear(i, h) ==
    /\ Did("add_file_handler") /\ last'.self = i /\ last'.hname = h
    /\ objs[i].handlers[h] = NoHandler
    /\ last.op = "clear_todays_logs" /\ last.self = i /\ last.err = ""
    /\ ~PathExists(dirs, files, RunIdDir(objs[i]) \o <<FullFilename(h)>>)

\* C15 as stated: clear_todays_logs() followed by add_file_handler with a new
\* handler name, at any handler level, leaves the date and run-id directories
\* in place and a log file for the handler that is empty when
\* add_file_handler returns.
C15_FreshFileEmpty ==
    [][Did("add_file_handler") =>
       \A i \in DOMAIN objs, h \in HNames :
          AddAfterClear(i, h)
            => LET k == objs'[i].handlers[h]
               IN  /\ TodaysLogDir(objs[i]) \in dirs'
                   /\ RunIdDir(objs[i]) \in dirs'
                   /\ <<hs'[k].path, hs'[k].ino>> \in files'
                   /\ inodes'[hs'[k].ino] = <<>>]_vars

\* C15 amended: the file is a new one and, when add_file_handler returns, it
\* is empty if the handler's level is above DEBUG and holds exactly the one
\* DEBUG record that add_file_handler itself emits if the level is DEBUG.
C15_FreshFileOwnLine ==
    [][Did("add_file_handler") =>
       \A i \in DOMAIN objs, h \in HNames :
          AddAfterClear(i, h)
            => LET k == objs'[i].handlers[h]
                   rec == [name |-> objs[i].name, lvl |-> DEBUG, seq |-> Len(log) + 1]
               IN  /\ TodaysLogDir(objs[i]) \in dirs'
                   /\ RunIdDir(objs[i]) \in dirs'
                   /\ <<hs'[k].path, hs'[k].ino>> \in files'
                   /\ hs'[k].ino \notin DOMAIN inodes
                   /\ inodes'[hs'[k].ino] =
                         IF last'.lvl <= DEBUG THEN <<Line(hs', k, rec)>> ELSE <<>>]_vars

\* a file handler was added at DEBUG level under a new name after the log
\* file of the first handler had been cleared away: the directories exist
\* again and the new file holds the one line of the add
C15_Witness ==
    /\ last.op = "add_file_handler"
    /\ last.lvl = DEBUG
    /\ FileHandlers = {1, 2}
    /\ objs[last.self].handlers[last.hname] = 2
    /\ hs[1].path # hs[2].path
    /\ ~PathExists(dirs, files, hs[1].path)
    /\ <<hs[2].path, hs[2].ino>> \in files
    /\ SubSeq(hs[2].path, 1, Len(hs[2].path) - 1) \in dirs
    /\ Len(inodes[hs[2].ino]) = 1
    /\ inodes[hs[2].ino][1].lvl = DEBUG

\* C16: clear_todays_logs() on a registered Logger raises nothing in any
\* reachable state, also when the Logger never added a file handler; it
\* removes the directory <base directory>/<date stamp of today> with all it
\* contains if that directory exists, and otherwise changes nothing.
C16_ClearTodaysLogs ==
    [][\A i \in DOMAIN objs :
          (Did("clear_todays_logs") /\ last'.self = i)
            => LET today == objs[i].dir \o <<create_datestamp(now)>>
               IN  /\ last'.err = ""
                   /\ IF PathExists(dirs, files, today)
                      THEN /\ dirs' = RmtreeDirs(dirs, today)
                           /\ files' = RmtreeFiles(files, today)
                      ELSE /\ dirs' = dirs
                           /\ files' = files
                   /\ UNCHANGED <<instances, run_id, objs, pylog, hs>>]_vars

(* ---------------- concurrent add_file_handler ---------------- *)

\* thread t is at position p of its call
At(t, p) == threads[t].pc = p

\* thread t moves on to position p
Goto(t, p) == threads' = [threads EXCEPT ![t].pc = p]

\* the call of thread t ends with exception e
Raise(t, e) == threads' = [threads EXCEPT ![t].pc = "raised", ![t].err = e]

\* add_file_handler up to the existence test of _create_todays_log_dir:
\* the duplicate-name guard (a duplicate goes on to the warning of line 247),
\* full_filename = ... (line 251, kept in the thread's local "file"),
\* self.date_dir = ..., os.path.exists(self.date_dir)
TodayCheck(t) ==
    LET i == threads[t].self
        o == objs[i]
        h == threads[t].hname
    IN  /\ At(t, "add_file_handler")
        /\ IF _handler_exists(o, h)
           THEN /\ Goto(t, "warn")
                /\ UNCHANGED objs
           ELSE /\ objs' = [objs EXCEPT ![i].date_dir = TodaysLogDir(o)]
                /\ threads' = [threads EXCEPT
                      ![t].file = FullFilename(h),
                      ![t].pc = IF PathExists(dirs, files, TodaysLogDir(o))
                                THEN "run_dir" ELSE "makedirs_date"]
        /\ UNCHANGED <<instances, run_id, pylog, hs, dirs, files, inodes, log,
                       now, steps, returned, last>>

\* os.makedirs(p) without exist_ok: FileExistsError when p is there
MakedirsRaises(D, F, p) == PathExists(D, F, p)

\* os.makedirs(self.date_dir), reached when the test found no directory
TodayMake(t) ==
    LET o == objs[threads[t].self]
    IN  /\ At(t, "makedirs_date")
        /\ IF MakedirsRaises(dirs, files, o.date_dir)
           THEN /\ Raise(t, "FileExistsError")
                /\ UNCHANGED dirs
           ELSE /\ dirs' = Makedirs(dirs, o.date_dir)
                /\ Goto(t, "run_dir")
        /\ UNCHANGED <<instances, run_id, objs, pylog, hs, files, inodes, log,
                       now, steps, returned, last>>

\* _create_run_id_dir after _create_todays_log_dir returned:
\* self.run_dir = ..., os.path.exists(self.run_dir)
RunCheck(t) ==
    LET i == threads[t].self
        o == objs[i]
        run_dir == o.date_dir \o <<run_id>>
    IN  /\ At(t, "run_dir")
        /\ objs' = [objs EXCEPT ![i].run_dir = run_dir]
        /\ Goto(t, IF PathExists(dirs, files, run_dir) THEN "open" ELSE "makedirs_run")
        /\ UNCHANGED <<instances, run_id, pylog, hs, dirs, files, inodes, log,
                       now, steps, returned, last>>

\* os.makedirs(self.run_dir), reached when the test found no directory
RunMake(t) ==
    LET o == objs[threads[t].self]
    IN  /\ At(t, "makedirs_run")
        /\ IF MakedirsRaises(dirs, files, o.run_dir)
           THEN /\ Raise(t, "FileExistsError")
                /\ UNCHANGED dirs
           ELSE /\ dirs' = Makedirs(dirs, o.run_dir)
                /\ Goto(t, "open")
        /\ UNCHANGED <<instances, run_id, objs, pylog, hs, files, inodes, log,
                       now, steps, returned, last>>

\* lines 255-260: file_path = ..., and logging.FileHandler(file_path, "a")
\* opens the file, which creates it when it is not there; the handler is a
\* local of the call so far
Construct(t) ==
    LET o == objs[threads[t].self]
        k == Len(hs) + 1
        file_path == o.run_dir \o <<threads[t].file>>
        isNew == ~PathExists(dirs, files, file_path)
        ino == IF isNew THEN Len(inodes) + 1 ELSE InodeAt(files, file_path)
    IN  /\ At(t, "open")
        /\ IF o.run_dir \notin dirs
           THEN /\ Raise(t, "FileNotFoundError")
                /\ UNCHANGED <<files, hs, inodes>>
           ELSE /\ files' = IF isNew THEN files \cup {<<file_path, ino>>} ELSE files
                /\ hs' = Append(hs, NewHandler("file", threads[t].lvl, threads[t].fmt,
                                               file_path, ino))
                /\ inodes' = IF isNew THEN Append(inodes, <<>>) ELSE inodes
                /\ threads' = [threads EXCEPT ![t].handler = k, ![t].pc = "record"]
        /\ UNCHANGED <<instances, run_id, objs, pylog, dirs, log, now, steps,
                       returned, last>>

\* line 263: self.handlers[handler_name] = file_handler
Record(t) ==
    /\ At(t, "record")
    /\ objs' = [objs EXCEPT ![threads[t].self].handlers[threads[t].hname] =
                                threads[t].handler]
    /\ Goto(t, "attach")
    /\ UNCHANGED <<instances, run_id, pylog, hs, dirs, files, inodes, log, now,
                   steps, returned, last>>

\* line 264: self.logger.addHandler(file_handler)
Attach(t) ==
    /\ At(t, "attach")
    /\ pylog' = [pylog EXCEPT ![objs[threads[t].self].name] =
                                  addHandler(@, threads[t].handler)]
    /\ Goto(t, "announce")
    /\ UNCHANGED <<instances, run_id, objs, hs, dirs, files, inodes, log, now,
                   steps, returned, last>>

\* line 265, self.debug(...), or line 247, self.logger.warning(...), up to
\* logging.Logger.makeRecord: the record exists, no handler has it yet
Announce(t) ==
    LET o == objs[threads[t].self]
        lvl == IF At(t, "warn") THEN WARNING ELSE DEBUG
        rec == makeRecord(LogState, o.name, lvl)
    IN  /\ At(t, "warn") \/ At(t, "announce")
        /\ IF lvl < LoggerLevel
           THEN /\ Goto(t, "done")
                /\ UNCHANGED log
           ELSE /\ log' = Append(log, rec)
                /\ threads' = [threads EXCEPT ![t].rec = rec, ![t].pc = "handle"]
        /\ UNCHANGED <<instances, run_id, objs, pylog, hs, dirs, files, inodes,
                       now, steps, returned, last>>

\* the rest of the logging call: logging.Logger.callHandlers hands the record
\* to the handlers of the underlying logger, which write it
Handle(t) ==
    LET o == objs[threads[t].self]
    IN  /\ At(t, "handle")
        /\ SetLogState(callHandlers(LogState, pylog[o.name], threads[t].rec))
        /\ Goto(t, "done")
        /\ UNCHANGED <<instances, run_id, objs, pylog, dirs, files, now, steps,
                       returned, last>>

\* a Logger that was created with the default base directory and has no
\* handler yet
FreshLogger(n) == [InitObj(NewObj, n, "logs") EXCEPT !.initialized = TRUE]

\* the names of the two Loggers of the scenario, by thread
NameOf(t) == IF t = 1 THEN "a" ELSE "b"

\* two registered Loggers with the same base directory, each about to run
\* add_file_handler on its own thread; the date directory and the run-id
\* directory may exist already
InitAddFile ==
    /\ instances = [n \in Names |-> IF n = "a" THEN 1 ELSE 2]
    /\ run_id = create_log_datetime_stamp(<<0, 0>>, <<0, 0>>)
    /\ objs = <<FreshLogger("a"), FreshLogger("b")>>
    /\ pylog = [n \in Names |-> <<>>]
    /\ hs = <<>>
    /\ dirs \in {Makedirs({}, <<"logs">>),
                 Makedirs({}, <<"logs", 0>>),
                 Makedirs({}, <<"logs", 0, run_id>>)}
    /\ files = {}
    /\ inodes = <<>>
    /\ log = <<>>
    /\ now = <<0, 0>>
    /\ steps = 0
    /\ returned = [n \in Names |-> instances[n]]
    /\ last = Outcome("init", NoInst, "", "", "", 0, NoInst, "")
    /\ \E h1, h2 \in HNames, a1, a2 \in HandlerArgs :
          threads = [t \in Threads |->
                        [NoCall EXCEPT !.pc = "add_file_handler",
                                       !.self = t,
                                       !.name = NameOf(t),
                                       !.hname = IF t = 1 THEN h1 ELSE h2,
                                       !.lvl = IF t = 1 THEN a1[1] ELSE a2[1],
                                       !.fmt = IF t = 1 THEN a1[2] ELSE a2[2]]]

\* the threads run their calls in any interleaving of the steps between which
\* the code holds no lock
NextAddFile ==
    \/ \E t \in Threads : TodayCheck(t)
    \/ \E t \in Threads : TodayMake(t)
    \/ \E t \in Threads : RunCheck(t)
    \/ \E t \in Threads : RunMake(t)
    \/ \E t \in Threads : Construct(t)
    \/ \E t \in Threads : Record(t)
    \/ \E t \in Threads : Attach(t)
    \/ \E t \in Threads : Announce(t)
    \/ \E t \in Threads : Handle(t)

SpecAddFile == InitAddFile /\ [][NextAddFile]_vars

\* C17: when two Loggers run add_file_handler concurrently and need the same
\* date or run-id directory, neither call raises, under any interleaving of
\* their existence tests and directory creations; a call that has returned
\* has its handler in the mapping and its directories exist.
C17_BothSucceed ==
    \A t \in Threads :
        /\ threads[t].pc # "raised"
        /\ threads[t].pc = "done"
              => /\ objs[threads[t].self].handlers[threads[t].hname] # NoHandler
                 /\ objs[threads[t].self].date_dir \in dirs
                 /\ objs[threads[t].self].run_dir \in dirs

(* ---------------- concurrent Logger(name) ---------------- *)

\* __new__, lines 55-56: the registry lookup; a registered instance is
\* returned and __init__ is called on it
Lookup(t) ==
    LET n == threads[t].name
    IN  /\ At(t, "Logger")
        /\ threads' = IF InRegistry(n)
                       THEN [threads EXCEPT ![t].self = instances[n], ![t].pc = "__init__"]
                       ELSE [threads EXCEPT ![t].pc = "__new__"]
        /\ UNCHANGED <<instances, run_id, objs, pylog, hs, dirs, files, inodes,
                       log, now, steps, returned, last>>

\* __new__, lines 59-65: a new object, its underlying logger and level
Alloc(t) ==
    /\ At(t, "__new__")
    /\ objs' = Append(objs, NewObj)
    /\ threads' = [threads EXCEPT ![t].self = Len(objs) + 1, ![t].pc = "run_id"]
    /\ UNCHANGED <<instances, run_id, pylog, hs, dirs, files, inodes, log, now,
                   steps, returned, last>>

\* __new__, line 69: if not hasattr(cls, "_run_id")
RunIdCheck(t) ==
    /\ At(t, "run_id")
    /\ Goto(t, IF HasRunId THEN "register" ELSE "set_run_id")
    /\ UNCHANGED <<instances, run_id, objs, pylog, hs, dirs, files, inodes,
                   log, now, steps, returned, last>>

\* __new__, line 70, first half: create_log_datetime_stamp() calls
\* create_datestamp(), which reads the clock; the reading is a local of the
\* call ("read")
RunIdDate(t) ==
    /\ At(t, "set_run_id")
    /\ \E t1 \in Reads(now) :
          /\ now' = t1
          /\ threads' = [threads EXCEPT ![t].read = t1, ![t].pc = "set_run_id_time"]
    /\ UNCHANGED <<instances, run_id, objs, pylog, hs, dirs, files, inodes, log,
                   steps, returned, last>>

\* __new__, line 70, create_log_datetime_stamp() continued:
\* create_timestamp() reads the clock again and the stamp is returned; it is
\* a value of the call ("stamp"), not yet assigned
RunIdTime(t) ==
    /\ At(t, "set_run_id_time")
    /\ \E t2 \in Reads(now) :
          /\ now' = t2
          /\ threads' = [threads EXCEPT
                ![t].stamp = create_log_datetime_stamp(threads[t].read, t2),
                ![t].pc = "set_run_id_store"]
    /\ UNCHANGED <<instances, run_id, objs, pylog, hs, dirs, files, inodes, log,
                   steps, returned, last>>

\* __new__, line 70, the assignment: cls._run_id = <the stamp>
RunIdSet(t) ==
    /\ At(t, "set_run_id_store")
    /\ run_id' = threads[t].stamp
    /\ threads' = [threads EXCEPT ![t].gen = TRUE, ![t].pc = "register"]
    /\ UNCHANGED <<instances, objs, pylog, hs, dirs, files, inodes, log, now,
                   steps, returned, last>>

\* __new__, lines 72-73: cls._instances[name] = instance; return instance
Register(t) ==
    /\ At(t, "register")
    /\ instances' = [instances EXCEPT ![threads[t].name] = threads[t].self]
    /\ Goto(t, "__init__")
    /\ UNCHANGED <<run_id, objs, pylog, hs, dirs, files, inodes, log, now,
                   steps, returned, last>>

\* __init__, lines 83-92: the re-initialization guard, the three attributes,
\* and the existence test of the base directory
InitFields(t) ==
    LET i == threads[t].self
        o == objs[i]
        d == threads[t].dir
    IN  /\ At(t, "__init__")
        /\ IF AlreadyInitialized(o)
           THEN /\ threads' = [threads EXCEPT ![t].ret = i, ![t].pc = "done"]
                /\ UNCHANGED objs
           ELSE /\ objs' = [objs EXCEPT ![i].handlers = [h \in HNames |-> NoHandler],
                                        ![i].name = threads[t].name,
                                        ![i].dir = <<d>>]
                /\ Goto(t, IF PathExists(dirs, files, <<d>>)
                           THEN "initialized" ELSE "makedirs_base")
        /\ UNCHANGED <<instances, run_id, pylog, hs, dirs, files, inodes, log,
                       now, steps, returned, last>>

\* __init__, line 93: os.makedirs(self.log_file_defaullt_dir)
InitMake(t) ==
    LET o == objs[threads[t].self]
    IN  /\ At(t, "makedirs_base")
        /\ IF MakedirsRaises(dirs, files, o.dir)
           THEN /\ Raise(t, "FileExistsError")
                /\ UNCHANGED dirs
           ELSE /\ dirs' = Makedirs(dirs, o.dir)
                /\ Goto(t, "initialized")
        /\ UNCHANGED <<instances, run_id, objs, pylog, hs, files, inodes, log,
                       now, steps, returned, last>>

\* __init__, line 96: self._initialized = True; Logger(name) returns the
\* instance __new__ returned
InitDone(t) ==
    LET i == threads[t].self
    IN  /\ At(t, "initialized")
        /\ objs' = [objs EXCEPT ![i].initialized = TRUE]
        /\ threads' = [threads EXCEPT ![t].ret = i, ![t].pc = "done"]
        /\ UNCHANGED <<instances, run_id, pylog, hs, dirs, files, inodes, log,
                       now, steps, returned, last>>

\* the class right after import, or after every Logger was deleted again, and
\* two threads about to call Logger(name, dir); the base directory may be
\* there from an earlier run
InitCreate ==
    /\ instances = [n \in Names |-> NoInst]
    /\ \/ run_id = NoRunId /\ dirs \in {{}, Makedirs({}, <<"logs">>)}
       \/ run_id = create_log_datetime_stamp(<<0, 0>>, <<0, 0>>) /\ dirs = Makedirs({}, <<"logs">>)
    /\ objs = <<>>
    /\ pylog = [n \in Names |-> <<>>]
    /\ hs = <<>>
    /\ files = {}
    /\ inodes = <<>>
    /\ log = <<>>
    /\ now = <<1, 1>>
    /\ steps = 0
    /\ returned = [n \in Names |-> NoInst]
    /\ last = Outcome("init", NoInst, "", "", "", 0, NoInst, "")
    /\ \E n1, n2 \in Names :
          threads = [t \in Threads |->
                        [NoCall EXCEPT !.pc = "Logger",
                                       !.name = IF t = 1 THEN n1 ELSE n2,
                                       !.dir = "logs"]]

\* the two calls in any interleaving of the statements of __new__ and __init__
NextCreate ==
    \/ \E t \in Threads : Lookup(t)
    \/ \E t \in Threads : Alloc(t)
    \/ \E t \in Threads : RunIdCheck(t)
    \/ \E t \in Threads : RunIdDate(t)
    \/ \E t \in Threads : RunIdTime(t)
    \/ \E t \in Threads : RunIdSet(t)
    \/ \E t \in Threads : Register(t)
    \/ \E t \in Threads : InitFields(t)
    \/ \E t \in Threads : InitMake(t)
    \/ \E t \in Threads : InitDone(t)

SpecCreate == InitCreate /\ [][NextCreate]_vars

\* C18: when two threads call Logger(n) concurrently for the same name n
\* that is not registered, both calls return the same instance, that instance
\* is the one registered under n, and at most one of the calls generates the
\* global run id, under every interleaving.
C18_OneInstance ==
    /\ \A t, u \in Threads :
          (At(t, "done") /\ At(u, "done") /\ threads[t].name = threads[u].name)
            => /\ threads[t].ret = threads[u].ret
               /\ instances[threads[t].name] = threads[t].ret
    /\ Cardinality({t \in Threads : threads[t].gen}) <= 1

(* ---------------- mapping and emission path ---------------- *)

\* the handler objects in the mapping of object i
Mapped(i) == {objs[i].handlers[h] : h \in HNames} \ {NoHandler}

\* C19: in every state reached by Logger(n), add_console_handler,
\* add_file_handler, join_handler, remove_handler, set_handler_level and
\* _del_logger, the handler objects in the mapping of every registered Logger
\* are exactly the handler objects on its emission path.
C19_MappingIsPath ==
    \A i \in Live : Mapped(i) = Range(PathOf(i))

\* this step is remove_handler or _del_logger on object i, which is registered
\* and whose mapping holds handler k
Dropped(i, k) ==
    /\ i \in Live
    /\ k \in Mapped(i)
    /\ \/ Did("remove_handler") /\ last'.self = i
             /\ objs[i].handlers[last'.hname] = k
       \/ Did("_del_logger") /\ last'.self = i

\* C20: when two registered Loggers hold the same handler object (shared by
\* join_handler), remove_handler of it on one of them, or _del_logger of one
\* of them, leaves the other's slot, the handler's place on the other's
\* emission path and the handler itself (level, format, target, open) as
\* they were; and no handler in a registered Logger's mapping is ever closed
\* or off that Logger's emission path, so its records keep reaching the sink.
C20_SharedHandlerSurvives ==
    /\ [](\A j \in Live : \A k \in Mapped(j) :
              ~hs[k].closed /\ k \in Range(PathOf(j)))
    /\ [][(Did("remove_handler") \/ Did("_del_logger")) =>
           \A i, j \in DOMAIN objs, k \in DOMAIN hs :
             (Dropped(i, k) /\ j \in Live /\ j # i /\ k \in Mapped(j))
               => /\ j \in Live'
                  /\ objs'[j] = objs[j]
                  /\ pylog'[objs[j].name] = pylog[objs[j].name]
                  /\ k \in Range(pylog'[objs[j].name])
                  /\ hs'[k] = hs[k]
                  /\ ~hs'[k].closed]_vars

\* the Logger that created a handler was deleted after another Logger had
\* joined the handler: the other still has it, in its mapping and on its
\* emission path, open
C20_Witness ==
    /\ last.op = "_del_logger"
    /\ last.self # NoInst
    /\ last.self \notin Live
    /\ \E j \in Live, h \in HNames :
          /\ objs[j].handlers[h] # NoHandler
          /\ objs[j].handlers[h] = objs[last.self].handlers[h]
          /\ objs[j].handlers[h] \in Range(PathOf(j))
          /\ objs[j].handlers[h] \notin Range(pylog[last.name])
          /\ ~hs[objs[j].handlers[h]].closed

====
